---- MODULE Spec2Model ----
(***************************************************************************)
(* Model of the artwork browsing history of Unveil-frontend:               *)
(*   - the useArtworkHistory hook (history, currentIndex, persistence,     *)
(*     reconciliation with the server history),                            *)
(*   - its two consumers, ArtworkDisplayPage ("page") and ArtworkViewer    *)
(*     ("viewer"), with the React closure semantics the code relies on:    *)
(*     a callback sees the values of the render that created it, while a   *)
(*     functional state update sees the latest state.                      *)
(*                                                                         *)
(* history / currentIndex / ... hold the latest state (all queued updates  *)
(* applied); rHistory / rIndex / ... hold what the last render saw, which  *)
(* is what every callback created by that render reads.                    *)
(***************************************************************************)
EXTENDS Integers, Sequences, FiniteSets, TLC

\* ---------------------------------------------------------------- bounds
\* Capacity of the history. The source sets 100 (MAX_HISTORY_SIZE); the
\* model scales it down so that eviction happens within the explored runs.
MAX_HISTORY_SIZE == 2
\* Identity keys (museumSource + id) that records can carry.
NumKeys == 3
\* Identity keys that getRandomArtwork answers with.
NumFetchKeys == 2
\* Longest server history a getHistory response carries in the model.
MaxRemote == 3
\* Number of getRandomArtwork calls issued in one run.
MaxFetches == 2
\* Number of getRandomArtwork calls outstanding at the same time.
MaxPending == 2
\* Number of wheel events handled before the scheduler renders.
MaxBurst == 2
\* Longest input of mergeHistories in the specification of the pure merge.
MaxMergeLen == 2

Keys == 1..NumKeys
FetchKeys == 1..NumFetchKeys

\* ---------------------------------------------------------------- records
\* viewedAt is optional in Artwork; NoTime stands for its absence.
NoTime == -1
\* Clock value of the first addToHistory of the session.
FirstNow == 3

\* An Artwork, reduced to its identity key (museumSource + id), its
\* optional viewedAt, and a tag standing for its remaining fields, which
\* tells copies of one key from different origins apart.
Artwork(k, t, s) == [key |-> k, viewedAt |-> t, src |-> s]

\* null / undefined where the code returns a record or nothing.
NoRecord == Artwork(0, NoTime, "none")

Min(a, b) == IF a < b THEN a ELSE b
Max(a, b) == IF a > b THEN a ELSE b

\* Array.prototype.slice(0, end): a negative end counts from the end of
\* the array, and the result is clamped to the array.
Slice0(s, end) ==
  LET n == Len(s)
      e == IF end < 0 THEN Max(n + end, 0) ELSE Min(end, n)
  IN SubSeq(s, 1, e)

\* arr[i] of JavaScript (0-based), undefined outside the array.
At(s, i) == IF i >= 0 /\ i < Len(s) THEN s[i + 1] ELSE NoRecord

KeysOf(s) == {s[i].key : i \in 1..Len(s)}

\* ------------------------------------------------- useArtworkHistory (pure)
\* timeOf with the missing viewedAt taken as the latest time.
timeOf_missingLast(a) == IF a.viewedAt # NoTime THEN a.viewedAt ELSE 1000

\* Date(viewedAt).getTime(), 0 when viewedAt is missing.
timeOf(a) == IF a.viewedAt # NoTime THEN a.viewedAt ELSE 0

\* The forEach of mergeHistories: keeps the first record of every key.
RECURSIVE dedupe(_, _)
dedupe(s, seen) ==
  IF s = <<>> THEN <<>>
  ELSE IF Head(s).key \in seen THEN dedupe(Tail(s), seen)
       ELSE <<Head(s)>> \o dedupe(Tail(s), seen \cup {Head(s).key})

\* Array.prototype.sort with the comparator timeA - timeB; the sort of
\* the language is stable, so a record goes after the records that do not
\* compare greater.
RECURSIVE insertByTime(_, _)
insertByTime(sorted, a) ==
  IF sorted = <<>> THEN <<a>>
  ELSE IF timeOf(Head(sorted)) - timeOf(a) <= 0
       THEN <<Head(sorted)>> \o insertByTime(Tail(sorted), a)
       ELSE <<a>> \o sorted

RECURSIVE sortByViewedAt(_)
sortByViewedAt(s) ==
  IF s = <<>> THEN <<>>
  ELSE insertByTime(sortByViewedAt(SubSeq(s, 1, Len(s) - 1)), s[Len(s)])

\* mergeHistories without the seen set: every record is kept.
mergeHistories_noDedupe(local, server) == sortByViewedAt(local \o server)

mergeHistories(local, server) == sortByViewedAt(dedupe(local \o server, {}))

\* addToHistory as created by a render that saw currentIndex = cIdx,
\* applied to the latest state (prevHistory, prevIndex) at clock value t.
addToHistory(cIdx, prevHistory, prevIndex, artwork, t) ==
  LET kept == IF cIdx < Len(prevHistory) - 1
              THEN Slice0(prevHistory, cIdx + 1)
              ELSE prevHistory
      pushed == Append(kept, [artwork EXCEPT !.viewedAt = t])
      newHistory == IF Len(pushed) > MAX_HISTORY_SIZE THEN Tail(pushed) ELSE pushed
  IN [history |-> newHistory,
      currentIndex |-> Min(prevIndex + 1, MAX_HISTORY_SIZE - 1)]

\* goToPrevious as created by a render that saw (cIdx, cHistory): the new
\* currentIndex and the returned record.
goToPrevious(cIdx, cHistory, prevIndex) ==
  IF cIdx > 0
  THEN [currentIndex |-> prevIndex - 1, ret |-> At(cHistory, cIdx - 1)]
  ELSE [currentIndex |-> prevIndex, ret |-> NoRecord]

goToNext(cIdx, cHistory, prevIndex) ==
  IF cIdx < Len(cHistory) - 1
  THEN [currentIndex |-> prevIndex + 1, ret |-> At(cHistory, cIdx + 1)]
  ELSE [currentIndex |-> prevIndex, ret |-> NoRecord]

\* getCurrentArtwork with the lower bound off by one (currentIndex > 0).
getCurrentArtwork_skipsFirst(idx, hist) ==
  IF idx > 0 /\ idx < Len(hist) THEN hist[idx + 1] ELSE NoRecord

getCurrentArtwork(idx, hist) ==
  IF idx >= 0 /\ idx < Len(hist) THEN hist[idx + 1] ELSE NoRecord

\* canGoBack with the bound off by one (currentIndex >= 0).
canGoBackOf_inclusive(idx) == idx >= 0

canGoBackOf(idx) == idx > 0
canGoForwardOf(idx, hist) == idx < Len(hist) - 1
isAtEndOf(idx, hist) == idx >= Len(hist) - 1

\* ---------------------------------------------------------------- inputs
\* Histories an earlier session can have left under HISTORY_KEY: what
\* addToHistory saves, at most MAX_HISTORY_SIZE records, each with the
\* viewedAt of its append, hence in ascending order of viewedAt. They are
\* taken without repeated keys, so that a repeated key in the history is
\* the work of the session under study.
StoredRecs == {Artwork(1, 1, "stored"), Artwork(2, 2, "stored")}

RECURSIVE SeqsUpTo(_, _)
SeqsUpTo(S, n) ==
  IF n = 0 THEN {<<>>}
  ELSE LET shorter == SeqsUpTo(S, n - 1)
       IN shorter \cup {Append(s, x) : s \in {t \in shorter : Len(t) = n - 1}, x \in S}

StoredHistories ==
  {s \in SeqsUpTo(StoredRecs, MAX_HISTORY_SIZE) :
     /\ \A i \in 1..(Len(s) - 1) : s[i].viewedAt <= s[i + 1].viewedAt
     /\ Cardinality(KeysOf(s)) = Len(s)}

\* Records of a getHistory response; viewedAt is optional there.
RemoteRecs ==
  {Artwork(1, 2, "remote"), Artwork(2, 1, "remote"), Artwork(3, NoTime, "remote")}
    \cup {Artwork(k, 1, "remote") : k \in 4..NumKeys}

\* Responses of getHistory; <<>> is also what a failed request yields.
RemoteHistories == SeqsUpTo(RemoteRecs, MaxRemote)

\* Inputs of the pure merge: records of every key, without viewedAt or with
\* one of two timestamps, so that the deduplicated union can exceed
\* MAX_HISTORY_SIZE.
MergeRecs(s) == {Artwork(k, t, s) : k \in Keys, t \in {NoTime, 1, 2}}
MergeLocals == SeqsUpTo(MergeRecs("stored"), MaxMergeLen)
MergeServers == SeqsUpTo(MergeRecs("remote"), MaxMergeLen)

\* ---------------------------------------------------------------- state
VARIABLES
  consumer,          \* which component uses the hook: "page" or "viewer"
  mounted,           \* the effects of the first render have run
  history,           \* useArtworkHistory: history (latest state)
  currentIndex,      \* useArtworkHistory: currentIndex (latest state)
  isLoading,         \* useArtworkHistory: isLoading
  rHistory,          \* history as seen by the last render
  rIndex,            \* currentIndex as seen by the last render
  rBrowsing,         \* isBrowsingHistory as seen by the last render
  rPageLoading,      \* the page's isLoading as seen by the last render
  kHistory,          \* history seen by the viewer's keydown listener
  kIndex,            \* currentIndex seen by the viewer's keydown listener
  burst,             \* wheel events handled since the last render
  pageLoading,       \* ArtworkDisplayPage: isLoading
  error,             \* the consumer's error state is set
  isBrowsingHistory, \* ArtworkDisplayPage: isBrowsingHistory
  lastNavDirection,  \* ArtworkDisplayPage: lastNavDirection ref
  displayedArtwork,  \* the record the consumer shows
  storedKind,        \* localStorage[HISTORY_KEY]: "none", "valid" or "corrupt"
  stored,            \* the history parsed from localStorage[HISTORY_KEY]
  storageOk,         \* localStorage.setItem succeeds in this session
  pending,           \* outstanding getRandomArtwork calls: the currentIndex
                     \* their addToHistory saw, and whether the mount
                     \* effect or a later request issued them
  syncPending,       \* the getHistory call of syncFromBackend is outstanding
  now,               \* the clock
  nFetch,            \* getRandomArtwork calls issued so far
  notified,          \* keys recordView was called with in this session
  viewsPending,      \* recordView requests not yet answered
  mergeLocal, mergeRemote, mergeOut, mergePhase  \* the pure merge

hookVars == <<history, currentIndex, isLoading>>
renderVars == <<rHistory, rIndex, rBrowsing, rPageLoading, kHistory, kIndex, burst>>
viewVars == <<pageLoading, error, isBrowsingHistory, lastNavDirection, displayedArtwork>>
envVars == <<storedKind, stored, storageOk, pending, syncPending, now, nFetch>>
mergeVars == <<mergeLocal, mergeRemote, mergeOut, mergePhase>>
notifyVars == <<notified, viewsPending>>
vars == <<consumer, mounted, hookVars, renderVars, viewVars, envVars, mergeVars,
          notifyVars>>

\* Values the hook returns to the render.
currentArtwork == getCurrentArtwork(rIndex, rHistory)
canGoBack == canGoBackOf(rIndex)
canGoForward == canGoForwardOf(rIndex, rHistory)
isAtEnd == isAtEndOf(rIndex, rHistory)

\* State after construction: the first render, before its effects.
InitApp ==
  /\ consumer \in {"page", "viewer"}
  /\ mounted = FALSE
  /\ history = <<>> /\ currentIndex = -1 /\ isLoading = FALSE
  /\ rHistory = <<>> /\ rIndex = -1 /\ rBrowsing = FALSE
  /\ kHistory = <<>> /\ kIndex = -1 /\ burst = 0
  /\ pageLoading = (consumer = "page") /\ rPageLoading = (consumer = "page")
  /\ error = FALSE /\ isBrowsingHistory = FALSE
  /\ lastNavDirection = "none" /\ displayedArtwork = NoRecord
  /\ pending = <<>> /\ syncPending = FALSE /\ now = FirstNow /\ nFetch = 0
  /\ notified = {} /\ viewsPending = 0
  /\ mergeLocal = <<>> /\ mergeRemote = <<>> /\ mergeOut = <<>> /\ mergePhase = "off"

Init ==
  /\ InitApp
  /\ storedKind \in {"none", "valid", "corrupt"}
  /\ stored \in IF storedKind = "valid" THEN StoredHistories ELSE {<<>>}
  /\ storageOk \in BOOLEAN

\* ---------------------------------------------------------------- render
\* The state differs from what the last render saw: a render is due.
Dirty ==
  \/ <<history, currentIndex, isBrowsingHistory, pageLoading>>
       # <<rHistory, rIndex, rBrowsing, rPageLoading>>
  \/ burst > 0

\* A render of the consumer on the state (h, i, br, dir, disp, pl), with the
\* effects it triggers. Page: the effect that leaves history browsing
\* (deps isAtEnd, isBrowsingHistory) and the effect that shows
\* history[currentIndex] (deps currentIndex, history). Viewer: the effect
\* that shows currentArtwork, and the keydown listener, re-created only
\* when canGoBack or canGoForward changed.
Commit(h, i, br, dir, disp, pl) ==
  LET atEnd == isAtEndOf(i, h)
      leave == /\ <<isAtEnd, rBrowsing>> # <<atEnd, br>>
               /\ br /\ atEnd /\ dir = "next"
      show == <<rIndex, rHistory>> # <<i, h>> /\ i >= 0 /\ At(h, i) # NoRecord
      rekey == <<canGoBack, canGoForward>> # <<canGoBackOf(i), canGoForwardOf(i, h)>>
  IN /\ history' = h /\ currentIndex' = i
     /\ rHistory' = h /\ rIndex' = i
     /\ pageLoading' = pl /\ rPageLoading' = pl
     /\ burst' = 0
     /\ IF consumer = "page"
        THEN /\ isBrowsingHistory' = (br /\ ~leave)
             /\ rBrowsing' = (br /\ ~leave)
             /\ lastNavDirection' = IF leave THEN "none" ELSE dir
             /\ displayedArtwork' = IF show THEN At(h, i) ELSE disp
             /\ UNCHANGED <<kHistory, kIndex>>
        ELSE /\ isBrowsingHistory' = br /\ rBrowsing' = br
             /\ lastNavDirection' = dir
             /\ displayedArtwork' =
                  IF getCurrentArtwork(i, h) # NoRecord
                  THEN getCurrentArtwork(i, h) ELSE disp
             /\ kHistory' = IF rekey THEN h ELSE kHistory
             /\ kIndex' = IF rekey THEN i ELSE kIndex

\* A discrete event (click, keydown, touchend) is rendered, and its effects
\* run, before the next event is handled, and so are the updates of a
\* mount effect or of the completion of a request. A wheel event leaves the
\* render to the scheduler and the listeners are re-attached in a passive
\* effect after it: the wheel events of one gesture arrive in a burst, and
\* those that arrive before that run the callbacks of the last render.
Settle(sync, h, i, br, dir, disp, pl) ==
  IF sync THEN Commit(h, i, br, dir, disp, pl)
  ELSE /\ history' = h /\ currentIndex' = i
       /\ isBrowsingHistory' = br /\ lastNavDirection' = dir
       /\ displayedArtwork' = disp /\ pageLoading' = pl
       /\ burst < MaxBurst
       /\ burst' = burst + 1
       /\ UNCHANGED <<rHistory, rIndex, rBrowsing, rPageLoading, kHistory, kIndex>>

Render ==
  /\ mounted /\ Dirty
  /\ Commit(history, currentIndex, isBrowsingHistory, lastNavDirection,
            displayedArtwork, pageLoading)
  /\ UNCHANGED <<consumer, mounted, isLoading, error, envVars, mergeVars, notifyVars>>

\* ---------------------------------------------------------------- storage
\* saveToLocalStorage: setItem throws when the quota is exhausted or the
\* storage is unavailable, which holds for a whole session; the error is
\* logged.
saveToLocalStorage(newHistory) ==
  /\ IF storageOk THEN storedKind' = "valid" /\ stored' = newHistory
     ELSE UNCHANGED <<storedKind, stored>>
  /\ UNCHANGED storageOk

\* ------------------------------------------------------------ notifications
\* artworkAPI.recordView: posts the view and returns without awaiting it.
recordView(artwork) ==
  /\ notified' = notified \cup {artwork.key}
  /\ viewsPending' = viewsPending + 1

\* RecordViewDone with the failure of the request set as the error.
RecordViewDone_reportsFailure ==
  /\ viewsPending > 0
  /\ viewsPending' = viewsPending - 1
  /\ \E ok \in BOOLEAN : error' = (error \/ ~ok)
  /\ UNCHANGED <<consumer, mounted, hookVars, renderVars, pageLoading,
                 isBrowsingHistory, lastNavDirection, displayedArtwork,
                 envVars, mergeVars, notified>>

\* The request of a recordView is answered or fails; the failure is logged
\* by its catch handler.
RecordViewDone ==
  /\ viewsPending > 0
  /\ viewsPending' = viewsPending - 1
  /\ UNCHANGED <<consumer, mounted, hookVars, renderVars, viewVars, envVars,
                 mergeVars, notified>>

\* ---------------------------------------------------------------- startup
\* The effects of the first render, in order: loadHistory, syncFromBackend
\* (its guard history.length === 0 reads the first render, so it always
\* starts), and the first getRandomArtwork of the consumer, whose
\* addToHistory is the one of the first render.
\* loadHistory with the pointer set before the stored value is parsed.
loadHistory_pointerFirst ==
  IF storedKind = "valid"
  THEN [history |-> stored, currentIndex |-> Len(stored) - 1]
  ELSE [history |-> history, currentIndex |-> 0]

\* loadHistory: the history and pointer it sets; nothing is set when
\* HISTORY_KEY is absent or JSON.parse throws, the error is logged.
loadHistory ==
  IF storedKind = "valid"
  THEN [history |-> stored, currentIndex |-> Len(stored) - 1]
  ELSE [history |-> history, currentIndex |-> currentIndex]

Mount ==
  /\ ~mounted
  /\ mounted' = TRUE
  /\ syncPending' = (Len(rHistory) = 0)
  /\ IF consumer = "page" \/ (currentArtwork = NoRecord /\ ~isLoading)
     THEN /\ pending' = Append(pending, [cIdx |-> rIndex, by |-> "mount"])
          /\ nFetch' = nFetch + 1
          /\ error' = FALSE
          /\ isLoading' = (consumer = "viewer")
     ELSE UNCHANGED <<pending, nFetch, error, isLoading>>
  /\ Commit(loadHistory.history, loadHistory.currentIndex,
            isBrowsingHistory, lastNavDirection, displayedArtwork,
            consumer = "page")
  /\ UNCHANGED <<consumer, storedKind, stored, storageOk, now, mergeVars, notifyVars>>

\* SyncWith without the test serverHistory.length > 0.
SyncWith_noLengthTest(serverHistory) ==
  /\ syncPending
  /\ syncPending' = FALSE
  /\ LET merged == mergeHistories(<<>>, serverHistory)
     IN /\ Commit(merged, Len(merged) - 1, isBrowsingHistory,
                  lastNavDirection, displayedArtwork, pageLoading)
        /\ saveToLocalStorage(merged)
  /\ UNCHANGED <<consumer, mounted, isLoading, error, pending, now, nFetch, mergeVars, notifyVars>>

\* syncFromBackend after getHistory has answered serverHistory (a failed
\* request answers <<>>). The history it merges is the one of the first
\* render.
SyncWith(serverHistory) ==
  /\ syncPending
  /\ syncPending' = FALSE
  /\ IF Len(serverHistory) > 0
     THEN LET merged == mergeHistories(<<>>, serverHistory)
          IN /\ Commit(merged, Len(merged) - 1, isBrowsingHistory,
                       lastNavDirection, displayedArtwork, pageLoading)
             /\ saveToLocalStorage(merged)
     ELSE UNCHANGED <<history, currentIndex, renderVars, viewVars,
                      storedKind, stored, storageOk>>
  /\ UNCHANGED <<consumer, mounted, isLoading, error, pending, now, nFetch, mergeVars, notifyVars>>

SyncDone == \E serverHistory \in RemoteHistories : SyncWith(serverHistory)

\* ---------------------------------------------------------------- fetches
RemoveAt(s, n) == SubSeq(s, 1, n - 1) \o SubSeq(s, n + 1, Len(s))

\* A getRandomArtwork call is issued by a callback that saw currentIndex = cIdx.
CanFetch == nFetch < MaxFetches /\ Len(pending) < MaxPending
IssueFetch(cIdx) ==
  /\ pending' = Append(pending, [cIdx |-> cIdx, by |-> "next"])
  /\ nFetch' = nFetch + 1

\* getRandomArtwork resolves: the rest of loadNewArtwork / loadInitialArtwork
\* (page) or of fetchNext and loadNextArtwork (viewer).
FetchSucceeds ==
  /\ \E n \in 1..Len(pending), k \in FetchKeys :
       LET artwork == Artwork(k, NoTime, "fetched")
           added == addToHistory(pending[n].cIdx, history, currentIndex, artwork, now)
       IN /\ pending' = RemoveAt(pending, n)
          /\ saveToLocalStorage(added.history)
          /\ recordView(artwork)
          /\ IF consumer = "page"
             THEN /\ Commit(added.history, added.currentIndex, FALSE,
                            lastNavDirection, artwork, FALSE)
                  /\ UNCHANGED isLoading
             ELSE /\ Commit(added.history, added.currentIndex, isBrowsingHistory,
                            lastNavDirection, displayedArtwork, pageLoading)
                  /\ isLoading' = FALSE
  /\ now' = now + 1
  /\ UNCHANGED <<consumer, mounted, error, syncPending, nFetch, mergeVars>>

\* The page's getRandomArtwork and then getHistory resolve before React
\* renders: the updates of both continuations are batched into one render.
\* loadNewArtwork has queued setCurrentArtwork before addToHistory, so the
\* updater of setHistory is not run when it is queued; syncFromBackend then
\* queues setHistory(merged) and saves merged at once. The render runs the
\* updater on the history of before, and with it saveToLocalStorage, and
\* then takes merged as the history. (In the other order, and when the
\* answer of getHistory is empty, the outcome is that of SyncDone followed
\* by FetchSucceeds, or of FetchSucceeds alone.)
PageFetchThenSyncBatched ==
  /\ consumer = "page" /\ syncPending
  /\ syncPending' = FALSE
  /\ \E n \in 1..Len(pending), k \in FetchKeys,
        serverHistory \in RemoteHistories \ {<<>>} :
       LET artwork == Artwork(k, NoTime, "fetched")
           added == addToHistory(pending[n].cIdx, history, currentIndex, artwork, now)
           merged == mergeHistories(<<>>, serverHistory)
       IN /\ pending' = RemoveAt(pending, n)
          /\ saveToLocalStorage(added.history)
          /\ recordView(artwork)
          /\ Commit(merged, Len(merged) - 1, FALSE, lastNavDirection,
                    artwork, FALSE)
  /\ now' = now + 1
  /\ UNCHANGED <<consumer, mounted, isLoading, error, nFetch, mergeVars>>

\* FetchFails without the finally blocks: the loading flags stay set.
FetchFails_keepsLoading ==
  /\ \E n \in 1..Len(pending) : pending' = RemoveAt(pending, n)
  /\ error' = TRUE
  /\ Commit(history, currentIndex, isBrowsingHistory, lastNavDirection,
            displayedArtwork, pageLoading)
  /\ UNCHANGED <<consumer, mounted, isLoading, storedKind, stored, storageOk,
                 syncPending, now, nFetch, mergeVars, notifyVars>>

\* getRandomArtwork rejects: the catch and finally blocks of loadNewArtwork
\* / loadInitialArtwork (page) or of fetchNext and loadNextArtwork (viewer).
FetchFails ==
  /\ \E n \in 1..Len(pending) : pending' = RemoveAt(pending, n)
  /\ error' = TRUE
  /\ Commit(history, currentIndex, isBrowsingHistory, lastNavDirection,
            displayedArtwork, FALSE)
  /\ isLoading' = FALSE
  /\ UNCHANGED <<consumer, mounted, storedKind, stored, storageOk, syncPending,
                 now, nFetch, mergeVars, notifyVars>>

\* ------------------------------------------------------- ArtworkDisplayPage
\* handlePreviousClick, from the left button (disabled while not browsing an
\* empty history) or the ArrowLeft key.
PageHandlePreviousClick ==
  /\ mounted /\ consumer = "page"
  /\ \E path \in {"button", "key"} :
       path = "button" => ~(~rBrowsing /\ Len(rHistory) = 0)
  /\ Commit(history, goToPrevious(rIndex, rHistory, currentIndex).currentIndex,
            IF ~rBrowsing THEN TRUE ELSE isBrowsingHistory,
            "prev", displayedArtwork, pageLoading)
  /\ UNCHANGED <<consumer, mounted, isLoading, error, envVars, mergeVars, notifyVars>>

\* loadNewArtwork up to its await.
PageLoadNewArtwork ==
  /\ CanFetch
  /\ IssueFetch(rIndex)
  /\ error' = FALSE
  /\ Commit(history, currentIndex, isBrowsingHistory, lastNavDirection,
            displayedArtwork, TRUE)
  /\ UNCHANGED <<consumer, mounted, isLoading, storedKind, stored, storageOk,
                 syncPending, now, mergeVars, notifyVars>>

\* handleNextClick, from the right arrow button (rendered while browsing
\* before the end) or the ArrowRight key.
PageHandleNextClick ==
  /\ mounted /\ consumer = "page"
  /\ \E path \in {"button", "key"} :
       path = "button" => (rBrowsing /\ ~isAtEnd)
  /\ IF rBrowsing
     THEN /\ Commit(history,
                    IF ~isAtEnd
                    THEN goToNext(rIndex, rHistory, currentIndex).currentIndex
                    ELSE currentIndex,
                    isBrowsingHistory, "next", displayedArtwork, pageLoading)
          /\ UNCHANGED <<consumer, mounted, isLoading, error, envVars, mergeVars, notifyVars>>
     ELSE PageLoadNewArtwork

\* The refresh button, rendered instead of the right arrow and disabled
\* while the page is loading: loadNewArtwork.
PageRefreshClick ==
  /\ mounted /\ consumer = "page"
  /\ ~(rBrowsing /\ ~isAtEnd) /\ ~rPageLoading
  /\ PageLoadNewArtwork

\* ------------------------------------------------------------ ArtworkViewer
\* The closure an input path of the viewer runs: the keydown listener keeps
\* the render that last changed canGoBack or canGoForward, the gesture
\* listeners are those of the last render.
ViewerPaths == {"key", "swipe", "wheel"}
closureIndex(path) == IF path = "key" THEN kIndex ELSE rIndex
closureHistory(path) == IF path = "key" THEN kHistory ELSE rHistory

\* loadPreviousArtwork: ArrowLeft, swipe right, wheel right.
ViewerPreviousBy(path) ==
  /\ mounted /\ consumer = "viewer"
  /\ canGoBackOf(closureIndex(path))
  /\ Settle(path # "wheel", history,
            goToPrevious(closureIndex(path), closureHistory(path),
                         currentIndex).currentIndex,
            isBrowsingHistory, lastNavDirection, displayedArtwork, pageLoading)
  /\ UNCHANGED <<consumer, mounted, isLoading, error, envVars, mergeVars, notifyVars>>

ViewerLoadPreviousArtwork == \E path \in ViewerPaths : ViewerPreviousBy(path)

\* loadNextArtwork up to the await of fetchNext.
ViewerLoadNextArtwork(path) ==
  /\ CanFetch
  /\ IssueFetch(closureIndex(path))
  /\ error' = FALSE
  /\ isLoading' = TRUE
  /\ Settle(path # "wheel", history, currentIndex, isBrowsingHistory,
            lastNavDirection, displayedArtwork, pageLoading)
  /\ UNCHANGED <<consumer, mounted, storedKind, stored, storageOk, syncPending,
                 now, mergeVars, notifyVars>>

\* loadNextInHistory: ArrowRight, swipe left, wheel left.
ViewerReplayBy(path) ==
  /\ mounted /\ consumer = "viewer"
  /\ canGoForwardOf(closureIndex(path), closureHistory(path))
  /\ Settle(path # "wheel", history,
            goToNext(closureIndex(path), closureHistory(path),
                     currentIndex).currentIndex,
            isBrowsingHistory, lastNavDirection, displayedArtwork, pageLoading)
  /\ UNCHANGED <<consumer, mounted, isLoading, error, envVars, mergeVars, notifyVars>>

ViewerLoadNextInHistory ==
  \E path \in ViewerPaths :
    IF canGoForwardOf(closureIndex(path), closureHistory(path))
    THEN ViewerReplayBy(path)
    ELSE mounted /\ consumer = "viewer" /\ ViewerLoadNextArtwork(path)

\* The Retry button, rendered while nothing is displayed and the error is set.
ViewerRetry ==
  /\ mounted /\ consumer = "viewer"
  /\ displayedArtwork = NoRecord /\ error
  /\ ViewerLoadNextArtwork("button")

\* ---------------------------------------------------------------- program
Next ==
  \/ Mount
  \/ Render
  \/ SyncDone
  \/ FetchSucceeds
  \/ PageFetchThenSyncBatched
  \/ FetchFails
  \/ PageHandlePreviousClick
  \/ PageHandleNextClick
  \/ PageRefreshClick
  \/ ViewerLoadPreviousArtwork
  \/ ViewerLoadNextInHistory
  \/ ViewerRetry
  \/ RecordViewDone

Spec == Init /\ [][Next]_vars

\* ------------------------------------------------------ the merge on its own
\* mergeHistories applied to every pair of bounded inputs.
MergeInit ==
  /\ InitApp
  /\ consumer = "page"
  /\ storedKind = "none" /\ stored = <<>> /\ storageOk = TRUE

MergeStart ==
  /\ mergePhase = "off"
  /\ mergeLocal' \in MergeLocals
  /\ mergeRemote' \in MergeServers
  /\ mergePhase' = "input"
  /\ UNCHANGED <<consumer, mounted, hookVars, renderVars, viewVars, envVars,
                 mergeOut, notifyVars>>

MergeApply ==
  /\ mergePhase = "input"
  /\ mergeOut' = mergeHistories(mergeLocal, mergeRemote)
  /\ mergePhase' = "done"
  /\ UNCHANGED <<consumer, mounted, hookVars, renderVars, viewVars, envVars,
                 mergeLocal, mergeRemote, notifyVars>>

MergeNext == MergeStart \/ MergeApply

MergeSpec == MergeInit /\ [][MergeNext]_vars

\* ================================================================ claims
UniqueKeys(s) == \A i, j \in 1..Len(s) : i # j => s[i].key # s[j].key

\* C1 - pointer bounds: in every reachable state
\* -1 <= currentIndex <= history.length - 1, and currentIndex = -1 exactly
\* when the history is empty.
C1_PointerBounds ==
  /\ -1 <= currentIndex
  /\ currentIndex <= Len(history) - 1
  /\ (currentIndex = -1) <=> (Len(history) = 0)

\* C2 - capacity bound: in every reachable state the history has at most
\* MAX_HISTORY_SIZE records, whichever operation produced it.
C2_CapacityBound == Len(history) <= MAX_HISTORY_SIZE

\* C3 - key uniqueness: in every reachable state no two records of the
\* history have the same identity key.
C3_KeyUniqueness == UniqueKeys(history)

\* C4 - redo truncation: an append made while the pointer p is before the
\* last record yields the records up to p followed by the new record, and
\* leaves the pointer on the last record.
C4_RedoTruncation ==
  [][(FetchSucceeds /\ -1 <= currentIndex /\ currentIndex < Len(history) - 1)
       => /\ \E k \in FetchKeys :
               history' = SubSeq(history, 1, currentIndex + 1)
                            \o <<Artwork(k, now, "fetched")>>
          /\ currentIndex' = Len(history') - 1]_vars

\* C5 - eviction: an append made on a full history with the pointer on the
\* last record drops exactly the oldest record, keeps the others in order
\* followed by the new record, and leaves the pointer at
\* MAX_HISTORY_SIZE - 1.
C5_Eviction ==
  [][(FetchSucceeds /\ Len(history) = MAX_HISTORY_SIZE
        /\ currentIndex = MAX_HISTORY_SIZE - 1)
       => /\ \E k \in FetchKeys :
               history' = Tail(history) \o <<Artwork(k, now, "fetched")>>
          /\ currentIndex' = MAX_HISTORY_SIZE - 1]_vars

\* What the claims C6 and C7 require of a call that moves the pointer by
\* step (-1 or 1) when it may move, with the record ret it returns.
MovesAsSpecified(mayMove, step, ret) ==
  /\ history' = history
  /\ IF mayMove
     THEN currentIndex' = currentIndex + step /\ ret = At(history', currentIndex')
     ELSE currentIndex' = currentIndex /\ ret = NoRecord

\* C6 - moveBack: goToPrevious changes nothing and returns no record if the
\* pointer is <= 0, otherwise decrements the pointer by exactly 1 and
\* returns the record at the new pointer; the history is unchanged.
C6_MoveBack ==
  [][/\ PageHandlePreviousClick
          => MovesAsSpecified(currentIndex > 0, -1,
                              goToPrevious(rIndex, rHistory, currentIndex).ret)
     /\ \A path \in ViewerPaths :
          ViewerPreviousBy(path)
            => MovesAsSpecified(currentIndex > 0, -1,
                                goToPrevious(closureIndex(path), closureHistory(path),
                                             currentIndex).ret)]_vars

\* C7 - moveForward: goToNext changes nothing and returns no record if the
\* pointer is >= length - 1, otherwise increments the pointer by exactly 1
\* and returns the record at the new pointer; the history is unchanged.
C7_MoveForward ==
  [][/\ (PageHandleNextClick /\ rBrowsing /\ ~isAtEnd)
          => MovesAsSpecified(currentIndex < Len(history) - 1, 1,
                              goToNext(rIndex, rHistory, currentIndex).ret)
     /\ \A path \in ViewerPaths :
          ViewerReplayBy(path)
            => MovesAsSpecified(currentIndex < Len(history) - 1, 1,
                                goToNext(closureIndex(path), closureHistory(path),
                                         currentIndex).ret)]_vars

\* C8 - current(): the currentArtwork the hook returns is the record at the
\* pointer, and no record when the pointer is -1.
C8_Current ==
  /\ rIndex = -1 => currentArtwork = NoRecord
  /\ (rIndex >= 0 /\ rIndex < Len(rHistory)) => currentArtwork = rHistory[rIndex + 1]
  /\ currentArtwork # NoRecord => \E n \in 1..Len(rHistory) : currentArtwork = rHistory[n]

C8_Witness ==
  /\ mounted /\ rIndex = 1 /\ Len(rHistory) >= 2
  /\ currentArtwork = rHistory[2]

\* C9 - canGoBack is true exactly when goToPrevious would change the
\* pointer, which is when the pointer is > 0; canGoForward is true exactly
\* when goToNext would change the pointer, which is when the pointer is
\* < length - 1; both are false on an empty history.
C9_CanGo ==
  /\ canGoBack <=> (goToPrevious(rIndex, rHistory, currentIndex).currentIndex # currentIndex)
  /\ canGoBack <=> (rIndex > 0)
  /\ canGoForward <=> (goToNext(rIndex, rHistory, currentIndex).currentIndex # currentIndex)
  /\ canGoForward <=> (rIndex < Len(rHistory) - 1)
  /\ Len(rHistory) = 0 => (~canGoBack /\ ~canGoForward)

C9_Witness == mounted /\ canGoBack /\ canGoForward

\* C10 - mergeHistories returns a sequence whose keys are exactly the keys
\* of local and server together, with one record per key, also when an
\* input repeats a key.
C10_MergeKeys ==
  mergePhase = "done"
    => /\ KeysOf(mergeOut) = KeysOf(mergeLocal) \cup KeysOf(mergeRemote)
       /\ UniqueKeys(mergeOut)

C10_Witness ==
  /\ mergePhase = "done"
  /\ ~UniqueKeys(mergeLocal) /\ ~UniqueKeys(mergeRemote)
  /\ KeysOf(mergeLocal) # KeysOf(mergeRemote)
  /\ Len(mergeOut) = 2

\* The first position of the record a in the sequence s.
FirstPos(s, a) == CHOOSE i \in 1..Len(s) : s[i] = a /\ \A j \in 1..(i - 1) : s[j] # a

\* C11 - merge collision policy: when local and server both hold a record
\* of one key, the merge keeps the server copy if both copies carry a
\* viewedAt and the server one is not older, and keeps the local copy when
\* the server copy lacks a viewedAt and the local one has it; merging
\* [k1 at t] with [k1 at t (server copy), k3 at an earlier time] yields
\* [k3, k1] with the server copy of k1.
C11_MergeCollision ==
  (mergePhase = "done" /\ UniqueKeys(mergeLocal) /\ UniqueKeys(mergeRemote))
    => /\ \A i \in 1..Len(mergeLocal), j \in 1..Len(mergeRemote) :
            mergeLocal[i].key = mergeRemote[j].key
              => /\ (/\ mergeLocal[i].viewedAt # NoTime
                     /\ mergeRemote[j].viewedAt # NoTime
                     /\ mergeRemote[j].viewedAt >= mergeLocal[i].viewedAt)
                      => \E n \in 1..Len(mergeOut) : mergeOut[n] = mergeRemote[j]
                 /\ (/\ mergeLocal[i].viewedAt # NoTime
                     /\ mergeRemote[j].viewedAt = NoTime)
                      => \E n \in 1..Len(mergeOut) : mergeOut[n] = mergeLocal[i]
       /\ (/\ mergeLocal = <<Artwork(1, 2, "stored")>>
           /\ mergeRemote = <<Artwork(1, 2, "remote"), Artwork(3, 1, "remote")>>)
            => mergeOut = <<Artwork(3, 1, "remote"), Artwork(1, 2, "remote")>>

\* C12 - merge ordering: the output of mergeHistories is in ascending order
\* of viewedAt, a record without viewedAt comes before every record with
\* one (NoTime is below every timestamp), and records with equal viewedAt
\* keep the order they had in local followed by server.
C12_MergeOrder ==
  mergePhase = "done"
    => \A n, m \in 1..Len(mergeOut) :
         n < m
           => /\ mergeOut[n].viewedAt <= mergeOut[m].viewedAt
              /\ mergeOut[n].viewedAt = mergeOut[m].viewedAt
                   => FirstPos(mergeLocal \o mergeRemote, mergeOut[n])
                        < FirstPos(mergeLocal \o mergeRemote, mergeOut[m])

C12_Witness ==
  /\ mergePhase = "done"
  /\ Len(mergeLocal) = 1 /\ mergeLocal[1].viewedAt # NoTime
  /\ Len(mergeOut) = 3
  /\ mergeOut[1].viewedAt = NoTime
  /\ mergeOut[2].viewedAt = mergeOut[3].viewedAt
  /\ mergeOut[2] = mergeLocal[1]

\* C13 - merge capacity: when local and server together hold more than
\* MAX_HISTORY_SIZE keys, the output of mergeHistories has exactly
\* MAX_HISTORY_SIZE records, and no record it leaves out is newer than a
\* record it keeps.
C13_MergeCapacity ==
  (/\ mergePhase = "done"
   /\ Cardinality(KeysOf(mergeLocal) \cup KeysOf(mergeRemote)) > MAX_HISTORY_SIZE)
    => /\ Len(mergeOut) = MAX_HISTORY_SIZE
       /\ \A i \in 1..Len(mergeLocal \o mergeRemote), n \in 1..Len(mergeOut) :
            (mergeLocal \o mergeRemote)[i].key \notin KeysOf(mergeOut)
              => (mergeLocal \o mergeRemote)[i].viewedAt <= mergeOut[n].viewedAt

\* C14 - requestPrevious without room to go back: a handlePreviousClick
\* (button or ArrowLeft) or loadPreviousArtwork made while the pointer is
\* <= 0 changes neither the history, nor the pointer, nor the navigation
\* state (isBrowsingHistory); on an empty history the state stays Live.
C14_PreviousNoOp ==
  [][((PageHandlePreviousClick \/ ViewerLoadPreviousArtwork)
        /\ ~canGoBackOf(currentIndex))
       => UNCHANGED <<history, currentIndex, isBrowsingHistory>>]_vars

\* C15 - requestPrevious with room to go back: while the pointer is > 0
\* every input path of the consumer acts on the request, and the request
\* moves the pointer back by exactly one, leaves the history unchanged and
\* leaves the page browsing its history (Replaying) whatever the state was.
C15_PreviousMoves ==
  /\ []((mounted /\ consumer = "viewer" /\ canGoBackOf(currentIndex))
          => \A path \in ViewerPaths : canGoBackOf(closureIndex(path)))
  /\ [][((PageHandlePreviousClick \/ ViewerLoadPreviousArtwork)
           /\ canGoBackOf(currentIndex))
          => /\ currentIndex' = currentIndex - 1
             /\ history' = history
             /\ consumer = "page" => isBrowsingHistory']_vars

\* The navigation state is Replaying: the page keeps it in
\* isBrowsingHistory; the viewer has no such state and replays exactly
\* while there is a record after the pointer.
Replaying ==
  IF consumer = "page" THEN isBrowsingHistory
  ELSE canGoForwardOf(currentIndex, history)

\* C16 - requestNext while Replaying with room to go forward: a
\* handleNextClick or loadNextInHistory made while the state is Replaying
\* and the pointer is before the last record moves the pointer forward by
\* one and issues no getRandomArtwork call; afterwards the state is Live if
\* the pointer is on the last record and Replaying otherwise.
C16_NextReplays ==
  [][((PageHandleNextClick \/ ViewerLoadNextInHistory)
        /\ Replaying /\ canGoForwardOf(currentIndex, history))
       => /\ currentIndex' = currentIndex + 1
          /\ pending' = pending /\ nFetch' = nFetch
          /\ Replaying' <=> (currentIndex' # Len(history') - 1)]_vars

\* C17 - requestNext otherwise: with no getRandomArtwork call outstanding,
\* a request for the next record (ArrowRight, right button, refresh button,
\* gesture) made while the state is Live, or Replaying with the pointer on
\* the last record, issues a getRandomArtwork call.
C17_NextFetches ==
  [][((PageHandleNextClick \/ PageRefreshClick \/ ViewerLoadNextInHistory)
        /\ pending = <<>>
        /\ (~Replaying \/ ~canGoForwardOf(currentIndex, history)))
       => Len(pending') = 1]_vars

\* C18 - success of a fetch issued by a request for the next record: when
\* its getRandomArtwork resolves, the fetched record is the last record of
\* the history, the pointer is on it, it is the current record and the
\* state is Live, whatever happened while the call was outstanding; on an
\* empty history the result is one record with the pointer at 0.
C18_FetchSuccess ==
  [][\A n \in 1..Len(pending) :
       (FetchSucceeds /\ pending[n].by = "next" /\ pending' = RemoveAt(pending, n))
         => /\ Len(history') >= 1
            /\ history'[Len(history')].src = "fetched"
            /\ history'[Len(history')].viewedAt = now
            /\ currentIndex' = Len(history') - 1
            /\ getCurrentArtwork(rIndex', rHistory') = history'[Len(history')]
            /\ ~Replaying'
            /\ Len(history) = 0 => (Len(history') = 1 /\ currentIndex' = 0)]_vars

\* C19 - failure of a fetch: when getRandomArtwork rejects, the history,
\* the pointer, the persisted history and the navigation state are what
\* they were, the error is set, and the loading flags are cleared, so that
\* the refresh button is enabled again.
C19_FetchFailure ==
  [][FetchFails
       => /\ UNCHANGED <<history, currentIndex, storedKind, stored, isBrowsingHistory>>
          /\ error'
          /\ ~pageLoading' /\ ~rPageLoading' /\ ~isLoading']_vars

C19_Witness ==
  /\ error /\ pending = <<>> /\ nFetch >= 2
  /\ ~pageLoading /\ ~isLoading
  /\ Len(history) >= 1 /\ storedKind = "valid" /\ stored = history

\* C20 - in-flight guard: at most one getRandomArtwork call is outstanding
\* at any time, whichever input path asks for the next record.
C20_OneFetchInFlight == Len(pending) <= 1

C22_RemoteFailure ==
  [][SyncWith(<<>>)
       => /\ UNCHANGED <<history, currentIndex, storedKind, stored, error,
                         isBrowsingHistory, displayedArtwork>>
          /\ (now = FirstNow /\ storedKind = "valid") => history' = stored]_vars

C22_Witness ==
  /\ mounted /\ ~syncPending /\ ~error
  /\ Len(history) >= 1 /\ history = stored
  /\ \A i \in 1..Len(history) : history[i].src = "stored"
  /\ currentIndex = Len(history) - 1

\* C23 - startup reconciliation: when the persisted local history L and the
\* answer R of getHistory are both non-empty, the history after
\* syncFromBackend is a merge of L and R with the pointer on its last
\* record: it holds keys of L and R only, and every key of L and of R
\* when they hold at most MAX_HISTORY_SIZE keys together.
C23_StartupMerge ==
  [][\A serverHistory \in RemoteHistories :
       (/\ SyncWith(serverHistory) /\ Len(serverHistory) > 0
        /\ now = FirstNow /\ storedKind = "valid" /\ Len(stored) > 0
        /\ history = stored)
         => /\ currentIndex' = Len(history') - 1
            /\ KeysOf(history') \subseteq KeysOf(stored) \cup KeysOf(serverHistory)
            /\ Cardinality(KeysOf(stored) \cup KeysOf(serverHistory)) <= MAX_HISTORY_SIZE
                 => KeysOf(history') = KeysOf(stored) \cup KeysOf(serverHistory)]_vars

\* C24 - the history survives across sessions: when the persisted history
\* of an earlier session is non-empty and below capacity and startup has
\* loaded it, the append of the automatic first fetch keeps every persisted
\* record, in memory and in the persisted history, with the new record
\* after them.
C24_SurvivesSessions ==
  [][\A n \in 1..Len(pending) :
       (/\ FetchSucceeds /\ pending[n].by = "mount"
        /\ pending' = RemoveAt(pending, n)
        /\ now = FirstNow /\ storedKind = "valid" /\ history = stored
        /\ Len(history) > 0 /\ Len(history) < MAX_HISTORY_SIZE
        /\ \A i \in 1..Len(history) : history[i].src = "stored")
         => /\ Len(history') = Len(history) + 1
            /\ SubSeq(history', 1, Len(history)) = history
            /\ history'[Len(history')].src = "fetched"
            /\ storageOk => stored' = history']_vars

\* C25 - view notifications: a request for the previous record that moves
\* the pointer calls recordView for the record it moves to unless that
\* record was notified in this session, a request for the next record that
\* replays a record of the history calls recordView for it, and a
\* successful append calls recordView exactly once.
C25_ViewNotifications ==
  [][/\ ((PageHandlePreviousClick \/ ViewerLoadPreviousArtwork)
           /\ currentIndex' = currentIndex - 1
           /\ At(history, currentIndex') # NoRecord
           /\ At(history, currentIndex').key \notin notified)
          => /\ At(history, currentIndex').key \in notified'
             /\ viewsPending' = viewsPending + 1
     /\ ((PageHandleNextClick \/ ViewerLoadNextInHistory)
           /\ currentIndex' = currentIndex + 1
           /\ At(history, currentIndex') # NoRecord)
          => /\ At(history, currentIndex').key \in notified'
             /\ viewsPending' = viewsPending + 1
     /\ FetchSucceeds
          => /\ viewsPending' = viewsPending + 1
             /\ history'[Len(history')].key \in notified']_vars

\* C26 - a view notification is fire-and-forget: the answer or the failure
\* of a recordView request, whenever it arrives, changes neither the
\* history, nor the pointer, nor the navigation state, nor what is
\* persisted or displayed, and sets no error.
C26_NotificationFrame ==
  [][RecordViewDone
       => UNCHANGED <<history, currentIndex, isBrowsingHistory, lastNavDirection,
                      error, storedKind, stored, displayedArtwork, pending>>]_vars

C26_Witness ==
  /\ mounted /\ viewsPending = 0 /\ notified # {}
  /\ Len(history) >= 2 /\ currentIndex < Len(history) - 1
  /\ ~error

\* C27 - the persisted copy tracks memory: in a session whose setItem
\* succeeds, once the startup load has run the history parsed from
\* HISTORY_KEY equals the history in memory (a stored value that does not
\* parse stays until the first save); and the stored value changes only in
\* an append or in syncFromBackend, never in a move of the pointer or a
\* failed fetch.
C27_PersistedTracksMemory ==
  /\ []((mounted /\ storageOk /\ storedKind # "corrupt") => stored = history)
  /\ [][(stored' # stored \/ storedKind' # storedKind)
          => /\ FetchSucceeds \/ SyncDone \/ PageFetchThenSyncBatched
             /\ history' # history \/ stored' = history']_vars

\* C28 - the navigation state matches the pointer: on ArtworkDisplayPage
\* isBrowsingHistory is false only if the pointer is on the last record (or
\* the history is empty), and true only if the pointer is before the last
\* record.
C28_NavStateMatchesPointer ==
  (mounted /\ consumer = "page")
    => /\ ~isBrowsingHistory => currentIndex = Len(history) - 1
       /\ isBrowsingHistory => currentIndex < Len(history) - 1

\* C29 - startup loads do not race with appends: when the answer of
\* getHistory arrives after a fetched record has been appended,
\* syncFromBackend leaves that record in the history and the pointer within
\* the history.
C29_StartupNoRace ==
  [][SyncDone
       => /\ \A i \in 1..Len(history) :
               history[i].src = "fetched"
                 => \E j \in 1..Len(history') : history'[j] = history[i]
          /\ (\E i \in 1..Len(history) : history[i].src = "fetched")
               => (-1 <= currentIndex' /\ currentIndex' <= Len(history') - 1)]_vars

\* C30 - the displayed record is the current record: once the consumer has
\* rendered, the record it shows is history[currentIndex], and it shows no
\* record only when the history is empty.
C30_DisplayedIsCurrent ==
  (mounted /\ burst = 0)
    => /\ displayedArtwork = NoRecord => history = <<>>
       /\ history # <<>> => displayedArtwork = At(history, currentIndex)

====
